---- MODULE Spec2Model ----
(***************************************************************************)
(* Smart Soil AI: the anomaly-detection pipeline and its dashboard.        *)
(*                                                                         *)
(*   Spec          the dashboard workflow of pages/Index.tsx driving the   *)
(*                 autoencoder module (model slot, isModelTrained)         *)
(*   SpecApi       the autoencoder module called directly by one caller    *)
(*                 that serialises its training calls                      *)
(*   SpecClassify  the pure classifier detectAnomalies on bounded inputs   *)
(*   SpecMetrics   computeMetrics on bounded detections and label sequences*)
(*   SpecInsights  generateInsights on bounded series and detections       *)
(*   SpecGenerate  generateSoilData step by step over a bounded random     *)
(*                 source                                                  *)
(*   SpecWindows   createWindows, then normalizeWindows applied to its own  *)
(*                 output                                                  *)
(*   SpecCsv       parseCSV on bounded files                               *)
(*   SpecTraining  the training workflow of the dashboard under a fit that *)
(*                 settles (weak fairness of the fit's steps)              *)
(*   SpecGenerateAny  generateSoilData for small numPoints, fair source    *)
(*   SpecAligned   computeMetrics on the detections of a framed series and *)
(*                 that series' labels                                     *)
(*                                                                         *)
(* Numbers: reconstruction errors and thresholds are counted in thousandths*)
(* (the threshold slider's step); a confidence is a count of thousandths   *)
(* too, which is what toFixed(3) leaves.  An optional value (T | null) is  *)
(* a sequence of length <= 1.  Moisture is counted in hundredths of a      *)
(* percent; a number printed with toFixed(1) is a count of tenths.         *)
(***************************************************************************)
EXTENDS Integers, Sequences, FiniteSets, TLC

None == <<>>
Some(x) == <<x>>

\* ------------------------------------------------------------- bounds
\* series loads (Generate Data / CSV import) in one behaviour
MaxLoads == 2
\* detection runs in one behaviour
MaxDetects == 2
\* SpecApi: epochs a caller configures, and training calls in one behaviour
MaxEpochs == 4
MaxCalls == 3
\* SpecClassify: length of the error sequence, largest error and threshold
MaxLen == 3
MaxErr == 3
MaxThreshold == 3
\* SpecMetrics: length of the ground-truth label sequence
MaxTruth == 4
\* SpecAligned: length of the series whose labels are all enumerated
MaxSamples == 11
\* SpecInsights: length of the enumerated moisture series
MaxData == 3
\* SpecGenerate: Math.random() returns one of 0/RandomLevels ..
\* (RandomLevels - 1)/RandomLevels
RandomLevels == 9
\* SpecWindows: length of the value series, largest window size, and calls
\* of normalizeWindows in a row
MaxValues == 4
MaxWindow == 3
MaxPasses == 2
\* SpecCsv: characters in a field and data rows in a file
MaxField == 2
MaxRows == 3

\* ------------------------------------------------- program constants
WINDOW_SIZE == 10
\* handleTrain: epochs: 60
TrainEpochs == 60
\* trainAutoencoder: epochs = 50 when the config names none
DefaultEpochs == 50
\* handleTrain: normalWindows.length < 10
MinNormalWindows == 10
\* useState(0.02), and the slider's min 0.001 and max 0.2, in thousandths
ThresholdInit == 20
ThresholdMin == 1
ThresholdMax == 200
\* the Data Points slider's minimum
NumPointsMin == 100
\* generateSoilData: the first and last 20 points are never anomalous
EdgeMargin == 20
\* buildAutoencoder: the encoder's units
EncoderUnits == 8
\* model.countParams() of dense(10 -> 8) and dense(8 -> 10), kernels and biases
ParamCount ==
  (WINDOW_SIZE * EncoderUnits + EncoderUnits)
    + (EncoderUnits * WINDOW_SIZE + WINDOW_SIZE)

VARIABLES
  \* pages/Index.tsx: component state and refs
  threshold, soilData, normalizedRef, groundTruthRef,
  isTraining, trainingProgress, trainingLoss, isTrained,
  detections, metrics, modelInfo, insights,
  isTFLiteConverted, isQuantized,
  toast, detectRuns,
  \* lib/autoencoderModel: the module's slot and flag, and the fits in flight
  model, isModelTrained, runs,
  \* SpecApi: what the caller of the module has observed
  events, cfgEpochs, lastReturn, succeeded, recon, calls,
  \* the pure functions: the arguments, the result, and the function's local
  \* variables where a claim speaks of them
  args, result, locals

dashVars == <<threshold, soilData, normalizedRef, groundTruthRef,
              isTraining, trainingProgress, trainingLoss, isTrained,
              detections, metrics, modelInfo, insights,
              isTFLiteConverted, isQuantized, toast, detectRuns>>
moduleVars == <<model, isModelTrained, runs>>
apiVars == <<events, cfgEpochs, lastReturn, succeeded, recon, calls>>
fnVars == <<args, result, locals>>
vars == <<dashVars, moduleVars, apiVars, fnVars>>

\* ------------------------------------------------------------ helpers
\* Math.round(num / den) and toFixed of num / den, for num >= 0, den > 0, on
\* the exact quotient: halves go up.  (No quotient the model rounds for a
\* progress percentage is a half.)
RoundDiv(num, den) == (2 * num + den) \div (2 * den)

Max(a, b) == IF a >= b THEN a ELSE b
Min(a, b) == IF a <= b THEN a ELSE b

RemoveAt(s, i) == [j \in 1..(Len(s) - 1) |-> IF j < i THEN s[j] ELSE s[j + 1]]

\* ------------------------------------------------ lib/dataGenerator
\* createWindows: one window per start index 0 .. len - windowSize
NumWindows(len, windowSize) == Max(0, len - windowSize + 1)

\* generateSoilData: anomalyCount = floor(numPoints * 0.08)
AnomalyCount(numPoints) == (numPoints * 8) \div 100

\* The outcome of Math.random() the model draws, as <<start, stride>>: the
\* k-th index added to anomalySet is 20 + (start + k*stride) mod (numPoints - 40).
\* For 100 points: 25, 32, 39, 46, 53, 60, 67, 74.
RandomDraws == {<<5, 7>>}

\* generateSoilData: the indices flagged isAnomaly
AnomalySet(numPoints, draw) ==
  {EdgeMargin + ((draw[1] + k * draw[2]) % (numPoints - 2 * EdgeMargin)) :
     k \in 0..(AnomalyCount(numPoints) - 1)}

\* the Data Points slider positions the model uses
NumPointsChoices == {NumPointsMin}

\* parseCSV: the number of rows an imported file yields (all isAnomaly false)
CsvRowCounts == {5, 15, 30}

\* --------------------------------------------- lib/autoencoderModel
\* const progress = Math.round(((epoch + 1) / epochs) * 100)
Progress_zeroBased(epochNumber, epochs) == RoundDiv((epochNumber - 1) * 100, epochs)
Progress(epochNumber, epochs) == RoundDiv(epochNumber * 100, epochs)

\* logs.loss of an epoch: an uninterpreted float, named by its epoch
LossOf(epochNumber) == epochNumber

isModelReady == isModelTrained /\ model # None

\* trainAutoencoder up to its await: a fresh model replaces the slot, the flag
\* is cleared, and the fit of the new model starts.
trainAutoencoder_start_keepsFlag(normalWindows, epochs) ==
  /\ model' = Some([batch |-> normalWindows, epoch |-> 0])
  /\ UNCHANGED isModelTrained
  /\ runs' = Append([j \in DOMAIN runs |-> [runs[j] EXCEPT !.owns = FALSE]],
                    [batch |-> normalWindows, epochs |-> epochs,
                     lossHistory |-> <<>>, owns |-> TRUE])
trainAutoencoder_start(normalWindows, epochs) ==
  /\ model' = Some([batch |-> normalWindows, epoch |-> 0])
  /\ isModelTrained' = FALSE
  /\ runs' = Append([j \in DOMAIN runs |-> [runs[j] EXCEPT !.owns = FALSE]],
                    [batch |-> normalWindows, epochs |-> epochs,
                     lossHistory |-> <<>>, owns |-> TRUE])

\* model.fit ends one epoch of run i: the weights of the model it fits move on
\* (they are the slot's weights while the slot still holds that model), and the
\* loss is pushed to lossHistory.
fit_epoch(i) ==
  LET r == runs[i]
      n == Len(r.lossHistory) + 1
  IN /\ n <= r.epochs
     /\ runs' = [runs EXCEPT ![i].lossHistory = Append(@, LossOf(n))]
     /\ model' = IF r.owns THEN Some([model[1] EXCEPT !.epoch = n]) ELSE model
     /\ UNCHANGED isModelTrained

\* the fit of run i resolved after its last epoch: isModelTrained = true
trainAutoencoder_return(i) ==
  /\ Len(runs[i].lossHistory) = runs[i].epochs
  /\ isModelTrained' = TRUE
  /\ runs' = RemoveAt(runs, i)
  /\ UNCHANGED model

\* tf.tensor2d threw or the fit of run i rejected: the call ends there
trainAutoencoder_throw(i) ==
  /\ runs' = RemoveAt(runs, i)
  /\ UNCHANGED <<model, isModelTrained>>

\* computeReconstructionError: throws 'Model not trained yet' when the slot is
\* empty; else one error per window, computed with the slot's current weights
computeReconstructionError(windows) ==
  IF model = None
  THEN [threw |-> TRUE, windows |-> windows, weights |-> None]
  ELSE [threw |-> FALSE, windows |-> windows, weights |-> model]

\* getModelInfo: zeros without a model, else the figures of the parameter
\* count; the sizes are in hundredths of a KB, which is what toFixed(2) leaves:
\*   originalSizeKB = (paramCount * 4) / 1024
\*   quantizedSizeKB = (paramCount * 1) / 1024 + 2
\*   reductionPercent = Math.round((original - quantized) / original * 100)
getModelInfo(run) ==
  IF model = None
  THEN [run |-> run, parameterCount |-> 0, originalSizeKB |-> 0,
        quantizedSizeKB |-> 0, reductionPercent |-> 0]
  ELSE [run |-> run, parameterCount |-> ParamCount,
        originalSizeKB |-> RoundDiv(400 * ParamCount, 1024),
        quantizedSizeKB |-> RoundDiv(100 * ParamCount, 1024) + 200,
        reductionPercent |->
          RoundDiv(100 * (3 * ParamCount - 2048), 4 * ParamCount)]

\* ------------------------------------------ components/ControlPanel
\* hasData={soilData.length > 0}
hasData == soilData.len > 0

\* Train Autoencoder: disabled={!hasData || isTraining}
TrainButtonEnabled_noTrainingCheck == hasData
TrainButtonEnabled == hasData /\ ~isTraining

\* Run Detection: disabled={!isTrained || isTraining}
DetectButtonEnabled == isTrained /\ ~isTraining

\* Convert to TFLite: disabled={!isTrained}
ConvertButtonEnabled == isTrained

\* Quantize to INT8: disabled={!isTFLiteConverted}
QuantizeButtonEnabled == isTFLiteConverted

\* the positions of the Reconstruction Threshold slider the model uses
ThresholdChoices == {ThresholdInit, ThresholdMax}

\* ---------------------------------------------------- pages/Index.tsx
ToastGenerated == "Data Generated"
ToastCsvLoaded == "CSV Loaded"
ToastCsvError == "CSV Error: Need at least 11 data points"
ToastTrained == "Model Trained"
ToastInsufficient == "Training Failed: Not enough normal data for training"
ToastFitFailed == "Training Failed: fit error"
ToastDetected == "Detection Complete"
ToastDetectError == "Detection Error"
ToastTFLite == "TFLite Conversion"
ToastQuantized == "INT8 Quantization"

\* setSoilData(data); groundTruthRef.current = ...; normalizedRef.current =
\* normalizeWindows(createWindows(moistureValues, WINDOW_SIZE))
LoadSeries(len, anom) ==
  LET gen == soilData.gen + 1
  IN /\ soilData' = [gen |-> gen, len |-> len, anom |-> anom]
     /\ groundTruthRef' = [gen |-> gen, len |-> len, anom |-> anom]
     /\ normalizedRef' = Some([gen |-> gen, count |-> NumWindows(len, WINDOW_SIZE)])

handleGenerateData ==
  \E numPoints \in NumPointsChoices, draw \in RandomDraws :
    /\ soilData.gen < MaxLoads
    /\ LoadSeries(numPoints, AnomalySet(numPoints, draw))
    /\ isTrained' = FALSE
    /\ detections' = None
    /\ metrics' = None
    /\ insights' = None
    /\ isTFLiteConverted' = FALSE
    /\ isQuantized' = FALSE
    /\ toast' = ToastGenerated
    /\ UNCHANGED <<threshold, isTraining, trainingProgress, trainingLoss,
                   modelInfo, detectRuns, moduleVars, apiVars, fnVars>>

handleCSVUpload_keepsResults ==
  \E rows \in CsvRowCounts :
    /\ IF rows < WINDOW_SIZE + 1
       THEN /\ toast' = ToastCsvError
            /\ UNCHANGED <<soilData, groundTruthRef, normalizedRef, isTrained>>
       ELSE /\ soilData.gen < MaxLoads
            /\ LoadSeries(rows, {})
            /\ isTrained' = FALSE
            /\ toast' = ToastCsvLoaded
    /\ UNCHANGED <<threshold, isTraining, trainingProgress, trainingLoss,
                   detections, metrics, insights, modelInfo,
                   isTFLiteConverted, isQuantized, detectRuns,
                   moduleVars, apiVars, fnVars>>

handleCSVUpload_resetsFirst ==
  \E rows \in CsvRowCounts :
    /\ isTrained' = FALSE
    /\ detections' = None
    /\ metrics' = None
    /\ insights' = None
    /\ IF rows < WINDOW_SIZE + 1
       THEN /\ toast' = ToastCsvError
            /\ UNCHANGED <<soilData, groundTruthRef, normalizedRef>>
       ELSE /\ soilData.gen < MaxLoads
            /\ LoadSeries(rows, {})
            /\ toast' = ToastCsvLoaded
    /\ UNCHANGED <<threshold, isTraining, trainingProgress, trainingLoss,
                   modelInfo, isTFLiteConverted, isQuantized, detectRuns,
                   moduleVars, apiVars, fnVars>>

\* The continuation of handleCSVUpload after `await file.text()`: the await
\* only delays it, so the import lands at any point of the workflow.
handleCSVUpload ==
  \E rows \in CsvRowCounts :
    /\ IF rows < WINDOW_SIZE + 1
       THEN /\ toast' = ToastCsvError
            /\ UNCHANGED <<soilData, groundTruthRef, normalizedRef, isTrained,
                           detections, metrics, insights>>
       ELSE /\ soilData.gen < MaxLoads
            /\ LoadSeries(rows, {})
            /\ isTrained' = FALSE
            /\ detections' = None
            /\ metrics' = None
            /\ insights' = None
            /\ toast' = ToastCsvLoaded
    /\ UNCHANGED <<threshold, isTraining, trainingProgress, trainingLoss,
                   modelInfo, isTFLiteConverted, isQuantized, detectRuns,
                   moduleVars, apiVars, fnVars>>

\* handleTrain: soilData.forEach((d, i) => { if (!d.isAnomaly &&
\*   i < normalizedRef.current.normalized.length) normalIndices.push(i) })
normalIndices ==
  {i \in 0..(soilData.len - 1) :
     i \notin soilData.anom /\ i < normalizedRef[1].count}

\* if (normalWindows.length < 10) throw new Error('Not enough normal data ...')
InsufficientData_onlyEmpty == normalIndices = {}
InsufficientData == Cardinality(normalIndices) < MinNormalWindows

\* handleTrain up to its await.  With too few normal windows the throw, the
\* catch and the finally all run before the handler returns.
handleTrain ==
  /\ TrainButtonEnabled
  /\ normalizedRef # None /\ soilData.len # 0
  /\ trainingProgress' = 0
  /\ isTrained' = FALSE
  /\ detections' = None
  /\ metrics' = None
  /\ insights' = None
  /\ isTFLiteConverted' = FALSE
  /\ isQuantized' = FALSE
  /\ IF InsufficientData
     THEN /\ toast' = ToastInsufficient
          /\ isTraining' = FALSE
          /\ UNCHANGED moduleVars
     ELSE /\ trainAutoencoder_start(
               [gen |-> normalizedRef[1].gen, idx |-> normalIndices], TrainEpochs)
          /\ isTraining' = TRUE
          /\ UNCHANGED toast
  /\ UNCHANGED <<threshold, soilData, normalizedRef, groundTruthRef,
                 trainingLoss, modelInfo, detectRuns, apiVars, fnVars>>

\* onEpochEnd of handleTrain, called by the fit after each epoch
TrainEpoch ==
  \E i \in DOMAIN runs :
    LET n == Len(runs[i].lossHistory) + 1
    IN /\ fit_epoch(i)
       /\ trainingProgress' = Progress(n, runs[i].epochs)
       /\ trainingLoss' = LossOf(n)
       /\ UNCHANGED <<threshold, soilData, normalizedRef, groundTruthRef,
                      isTraining, isTrained, detections, metrics, modelInfo,
                      insights, isTFLiteConverted, isQuantized, toast,
                      detectRuns, apiVars, fnVars>>

\* handleTrain after its await resolved: setIsTrained(true), then the finally
TrainComplete ==
  \E i \in DOMAIN runs :
    /\ trainAutoencoder_return(i)
    /\ isTrained' = TRUE
    /\ toast' = ToastTrained
    /\ isTraining' = FALSE
    /\ UNCHANGED <<threshold, soilData, normalizedRef, groundTruthRef,
                   trainingProgress, trainingLoss, detections, metrics,
                   modelInfo, insights, isTFLiteConverted, isQuantized,
                   detectRuns, apiVars, fnVars>>

\* handleTrain after its await rejected, without the finally block
TrainFail_withoutFinally ==
  \E i \in DOMAIN runs :
    /\ trainAutoencoder_throw(i)
    /\ toast' = ToastFitFailed
    /\ UNCHANGED <<threshold, soilData, normalizedRef, groundTruthRef,
                   isTraining, trainingProgress, trainingLoss, isTrained,
                   detections, metrics, modelInfo, insights,
                   isTFLiteConverted, isQuantized, detectRuns, apiVars,
                   fnVars>>

\* handleTrain after its await rejected: the catch, then the finally
TrainFail ==
  \E i \in DOMAIN runs :
    /\ trainAutoencoder_throw(i)
    /\ toast' = ToastFitFailed
    /\ isTraining' = FALSE
    /\ UNCHANGED <<threshold, soilData, normalizedRef, groundTruthRef,
                   trainingProgress, trainingLoss, isTrained, detections,
                   metrics, modelInfo, insights, isTFLiteConverted,
                   isQuantized, detectRuns, apiVars, fnVars>>

\* the statements of handleDetect's try block that compute a value, in order
DetectSteps == <<"computeReconstructionError", "detectAnomalies",
                 "computeMetrics", "getModelInfo", "generateInsights">>

\* handleDetect's try block when step `failedStep` throws (0: none does): the
\* four setters run only after all five values are computed.
DetectCommit_early(run, failedStep) ==
  LET errors == computeReconstructionError(normalizedRef[1].gen)
  IN /\ detections' = IF failedStep = 1 \/ errors.threw THEN detections
                      ELSE Some([run |-> run, windows |-> errors.windows,
                                 weights |-> errors.weights[1].batch.gen,
                                 threshold |-> threshold])
     /\ metrics' = IF failedStep \in 1..3 \/ errors.threw THEN metrics
                   ELSE Some([run |-> run, truth |-> groundTruthRef.gen])
     /\ modelInfo' = IF failedStep \in 1..4 \/ errors.threw THEN modelInfo
                     ELSE Some(getModelInfo(run))
     /\ insights' = IF failedStep # 0 \/ errors.threw THEN insights
                    ELSE Some([run |-> run, data |-> soilData.gen,
                               threshold |-> threshold])
DetectCommit(run, failedStep) ==
  LET errors == computeReconstructionError(normalizedRef[1].gen)
  IN IF failedStep # 0 \/ errors.threw
     THEN UNCHANGED <<detections, metrics, modelInfo, insights>>
     ELSE /\ detections' = Some([run |-> run, windows |-> errors.windows,
                                 weights |-> errors.weights[1].batch.gen,
                                 threshold |-> threshold])
          /\ metrics' = Some([run |-> run, truth |-> groundTruthRef.gen])
          /\ modelInfo' = Some(getModelInfo(run))
          /\ insights' = Some([run |-> run, data |-> soilData.gen,
                               threshold |-> threshold])

handleDetect ==
  \E failedStep \in 0..Len(DetectSteps) :
    /\ DetectButtonEnabled
    /\ normalizedRef # None /\ isModelReady
    /\ detectRuns < MaxDetects
    /\ detectRuns' = detectRuns + 1
    /\ DetectCommit(detectRuns + 1, failedStep)
    /\ toast' = IF failedStep = 0 THEN ToastDetected ELSE ToastDetectError
    /\ UNCHANGED <<threshold, soilData, normalizedRef, groundTruthRef,
                   isTraining, trainingProgress, trainingLoss, isTrained,
                   isTFLiteConverted, isQuantized, moduleVars, apiVars, fnVars>>

handleConvertTFLite ==
  /\ ConvertButtonEnabled
  /\ isModelReady
  /\ modelInfo' = Some(getModelInfo(0))
  /\ isTFLiteConverted' = TRUE
  /\ toast' = ToastTFLite
  /\ UNCHANGED <<threshold, soilData, normalizedRef, groundTruthRef,
                 isTraining, trainingProgress, trainingLoss, isTrained,
                 detections, metrics, insights, isQuantized, detectRuns,
                 moduleVars, apiVars, fnVars>>

handleQuantizeINT8 ==
  /\ QuantizeButtonEnabled
  /\ isTFLiteConverted
  /\ isQuantized' = TRUE
  /\ toast' = ToastQuantized
  /\ UNCHANGED <<threshold, soilData, normalizedRef, groundTruthRef,
                 isTraining, trainingProgress, trainingLoss, isTrained,
                 detections, metrics, modelInfo, insights, isTFLiteConverted,
                 detectRuns, moduleVars, apiVars, fnVars>>

\* onThresholdChange={setThreshold}
setThreshold ==
  \E v \in ThresholdChoices :
    /\ v # threshold
    /\ threshold' = v
    /\ UNCHANGED <<soilData, normalizedRef, groundTruthRef, isTraining,
                   trainingProgress, trainingLoss, isTrained, detections,
                   metrics, modelInfo, insights, isTFLiteConverted,
                   isQuantized, toast, detectRuns, moduleVars, apiVars, fnVars>>

\* the state after Index first renders and the module is loaded
DashInit ==
  /\ threshold = ThresholdInit
  /\ soilData = [gen |-> 0, len |-> 0, anom |-> {}]
  /\ normalizedRef = None
  /\ groundTruthRef = [gen |-> 0, len |-> 0, anom |-> {}]
  /\ isTraining = FALSE
  /\ trainingProgress = 0
  /\ trainingLoss = 0
  /\ isTrained = FALSE
  /\ detections = None
  /\ metrics = None
  /\ modelInfo = None
  /\ insights = None
  /\ isTFLiteConverted = FALSE
  /\ isQuantized = FALSE
  /\ toast = ""
  /\ detectRuns = 0

ModuleInit ==
  /\ model = None
  /\ isModelTrained = FALSE
  /\ runs = <<>>

ApiIdle ==
  /\ events = <<>>
  /\ cfgEpochs = 0
  /\ lastReturn = None
  /\ succeeded = FALSE
  /\ recon = None
  /\ calls = 0

FnIdle ==
  /\ args = None
  /\ result = None
  /\ locals = None

Init == DashInit /\ ModuleInit /\ ApiIdle /\ FnIdle

Next ==
  \/ handleGenerateData
  \/ handleCSVUpload
  \/ handleTrain
  \/ TrainEpoch
  \/ TrainComplete
  \/ TrainFail
  \/ handleDetect
  \/ handleConvertTFLite
  \/ handleQuantizeINT8
  \/ setThreshold

Spec == Init /\ [][Next]_vars

\* ------------------------------------------- the dashboard's claims

\* C1: whenever Run Detection is enabled (isTrained and not isTraining), the
\* model's weights come from a training run whose input windows were built
\* from the currently loaded series.
C1_DetectionNeverStale ==
  DetectButtonEnabled =>
    /\ model # None
    /\ model[1].batch.gen = soilData.gen

\* C2: a training call starts only while isTraining is false, and at most one
\* training run is in flight at any time.
C2_OneTrainingInFlight ==
  /\ [](Len(runs) <= 1)
  /\ [](isTraining <=> runs # <<>>)
  /\ [][Len(runs') > Len(runs) => ~isTraining]_vars

\* a run is in flight on a series that was replaced after the run started:
\* the Train button is disabled by isTraining alone
C2_Witness ==
  /\ Len(runs) = 1
  /\ isTraining
  /\ hasData
  /\ runs[1].lossHistory # <<>>
  /\ runs[1].batch.gen # soilData.gen

\* C5: training with fewer than 10 normal windows fails with 'Not enough
\* normal data for training': no training call is made (none starts on fewer
\* than 10 windows, and the step that reports the failure leaves the module
\* alone), isTrained and isTraining are false and no detection results exist.
C5_InsufficientData ==
  /\ [](toast = ToastInsufficient =>
          /\ ~isTrained
          /\ ~isTraining
          /\ runs = <<>>
          /\ detections = None
          /\ metrics = None
          /\ insights = None)
  /\ [][toast' = ToastInsufficient => UNCHANGED moduleVars]_vars
  /\ [][Len(runs') > Len(runs) =>
          Cardinality(runs'[Len(runs')].batch.idx) >= MinNormalWindows]_vars
  /\ [][(normalizedRef # None
          /\ Cardinality(normalIndices) < MinNormalWindows) =>
            Len(runs') <= Len(runs)]_vars

\* Train was refused on an imported series of 15 rows (6 windows) while the
\* module still holds the model of an earlier, successful training
C5_Witness ==
  /\ toast = ToastInsufficient
  /\ normalizedRef # None
  /\ Cardinality(normalIndices) \in 1..(MinNormalWindows - 1)
  /\ isModelReady

\* C6: Run Detection is all-or-nothing.  A run that fails leaves detections,
\* metrics, modelInfo and insights as they were; a run that succeeds replaces
\* all four with values of that run; detections, metrics and insights are
\* never from different runs.
C6_DetectAllOrNothing ==
  /\ [](/\ (detections = None) = (metrics = None)
        /\ (metrics = None) = (insights = None)
        /\ detections # None =>
             /\ metrics[1].run = detections[1].run
             /\ insights[1].run = detections[1].run)
  /\ [][detectRuns' # detectRuns =>
          \/ /\ UNCHANGED <<detections, metrics, modelInfo, insights>>
             /\ toast' = ToastDetectError
          \/ /\ detections' # None /\ detections'[1].run = detectRuns'
             /\ metrics' # None /\ metrics'[1].run = detectRuns'
             /\ modelInfo' # None /\ modelInfo'[1].run = detectRuns'
             /\ insights' # None /\ insights'[1].run = detectRuns'
             /\ toast' = ToastDetected]_vars

\* the second detection run failed and the results of the first are all kept
C6_Witness ==
  /\ detectRuns = 2
  /\ toast = ToastDetectError
  /\ detections # None /\ detections[1].run = 1
  /\ metrics # None /\ metrics[1].run = 1
  /\ insights # None /\ insights[1].run = 1

\* the windows of a series whose center sample is not anomalous
CenterNormalWindows(series) ==
  {k \in 0..(NumWindows(series.len, WINDOW_SIZE) - 1) :
     (k + WINDOW_SIZE \div 2) \notin series.anom}

\* C7: the windows passed to training are exactly the windows whose center
\* timestamp (windowIndex + floor(windowSize/2)) is a sample with
\* isAnomaly = false (stated of every run in flight on the loaded series).
C7_TrainsOnCenterNormalWindows ==
  \A i \in DOMAIN runs :
    runs[i].batch.gen = soilData.gen =>
      runs[i].batch.idx = CenterNormalWindows(soilData)

\* ------------------------------------ the autoencoder module's caller
\* SpecApi: one caller uses the module's exports directly.  It awaits each
\* trainAutoencoder call before it makes the next, and may ask for
\* reconstruction errors at any time.

\* the batches of normalized windows the caller trains on
ApiBatches == {[gen |-> 1, idx |-> 0..9], [gen |-> 2, idx |-> 0..14]}

\* config.epochs: absent, 1 .. MaxEpochs, or the dashboard's 60
EpochConfigs == {None} \cup {Some(e) : e \in (1..MaxEpochs) \cup {TrainEpochs}}

\* const { epochs = 50, ... } = config
EpochsOf(config) == IF config = None THEN DefaultEpochs ELSE config[1]

ApiTrain ==
  \E normalWindows \in ApiBatches, config \in EpochConfigs :
    /\ runs = <<>>
    /\ calls < MaxCalls
    /\ calls' = calls + 1
    /\ trainAutoencoder_start(normalWindows, EpochsOf(config))
    /\ cfgEpochs' = EpochsOf(config)
    /\ events' = <<>>
    /\ UNCHANGED <<lastReturn, succeeded, recon, dashVars, fnVars>>

\* onEpochEnd?.(epoch + 1, loss, progress)
ApiEpoch ==
  \E i \in DOMAIN runs :
    LET n == Len(runs[i].lossHistory) + 1
    IN /\ fit_epoch(i)
       /\ events' = Append(events,
                      [epochNumber |-> n, loss |-> LossOf(n),
                       percentComplete |-> Progress(n, runs[i].epochs)])
       /\ UNCHANGED <<cfgEpochs, lastReturn, succeeded, recon, calls,
                      dashVars, fnVars>>

\* return { loss: lossHistory }
ApiReturn ==
  \E i \in DOMAIN runs :
    /\ trainAutoencoder_return(i)
    /\ lastReturn' = Some([ok |-> TRUE, loss |-> runs[i].lossHistory])
    /\ succeeded' = TRUE
    /\ UNCHANGED <<events, cfgEpochs, recon, calls, dashVars, fnVars>>

\* the promise of trainAutoencoder rejects
ApiThrow ==
  \E i \in DOMAIN runs :
    /\ trainAutoencoder_throw(i)
    /\ lastReturn' = Some([ok |-> FALSE, loss |-> <<>>])
    /\ UNCHANGED <<events, cfgEpochs, succeeded, recon, calls, dashVars, fnVars>>

\* the caller invokes computeReconstructionError and keeps what happened,
\* with whether a training call had completed successfully by then
ApiComputeReconstructionError ==
  \E windows \in {b.gen : b \in ApiBatches} :
    /\ recon' = Some([threw |-> computeReconstructionError(windows).threw,
                      afterSuccess |-> succeeded,
                      inFlight |-> runs # <<>>,
                      calls |-> calls])
    /\ UNCHANGED <<events, cfgEpochs, lastReturn, succeeded, calls,
                   moduleVars, dashVars, fnVars>>

InitApi == DashInit /\ ModuleInit /\ ApiIdle /\ FnIdle

NextApi ==
  \/ ApiTrain
  \/ ApiEpoch
  \/ ApiReturn
  \/ ApiThrow
  \/ ApiComputeReconstructionError

SpecApi == InitApi /\ [][NextApi]_vars

\* C3: computeReconstructionError fails with ModelNotTrained whenever it is
\* invoked before any training call has completed successfully.
C3_ModelNotTrainedBeforeSuccess ==
  recon # None => (recon[1].afterSuccess \/ recon[1].threw)

\* C4: with training calls serialized, isModelReady() is true exactly when no
\* training call is in flight and the last completed one succeeded: false
\* before the first training, from the start of every call until it returns,
\* and after a call that fails; true after one that succeeds.
C4_ReadyOnlyAfterSuccess ==
  isModelReady <=> (runs = <<>> /\ lastReturn # None /\ lastReturn[1].ok)

\* a second training call is in flight after a first one succeeded: readiness
\* is false again
C4_Witness ==
  /\ succeeded
  /\ calls >= 2
  /\ runs # <<>>
  /\ runs[1].lossHistory # <<>>
  /\ ~isModelReady

\* p is x/E*100 rounded to the nearest integer, halves up
IsRoundedPercent(p, x, E) == 2 * E * p - E <= 200 * x /\ 200 * x < 2 * E * p + E

\* C8: a training run configured for E epochs emits one progress event after
\* each epoch, in order, with epochNumber 1, 2, ... and percentComplete =
\* round(epochNumber / E * 100), non-decreasing; when it has returned there
\* are exactly E events, the last with 100, and E losses; readiness is true
\* only after the last event.
C8_ProgressEvents ==
  /\ \A k \in DOMAIN events :
       /\ events[k].epochNumber = k
       /\ IsRoundedPercent(events[k].percentComplete, k, cfgEpochs)
       /\ k > 1 => events[k - 1].percentComplete <= events[k].percentComplete
  /\ Len(events) <= cfgEpochs
  /\ runs # <<>> => Len(runs[1].lossHistory) = Len(events)
  /\ (runs = <<>> /\ lastReturn # None /\ lastReturn[1].ok) =>
       /\ Len(events) = cfgEpochs
       /\ events[cfgEpochs].percentComplete = 100
       /\ Len(lastReturn[1].loss) = cfgEpochs
  /\ isModelReady => Len(events) = cfgEpochs

\* a run of three epochs has returned: its events carry 33, 67 and 100
C8_Witness ==
  /\ runs = <<>>
  /\ lastReturn # None /\ lastReturn[1].ok
  /\ cfgEpochs = 3
  /\ Len(events) = 3
  /\ events[1].percentComplete = 33
  /\ events[2].percentComplete = 67
  /\ isModelReady

\* --------------------------------------------- lib/anomalyDetection
\* A threshold is a finite count of thousandths or +Infinity; a confidence is
\* a count of thousandths or NaN.
Finite(v) == [inf |-> FALSE, v |-> v]
Infinity == [inf |-> TRUE, v |-> 0]
Number(milli) == [nan |-> FALSE, milli |-> milli]
NaN == [nan |-> TRUE, milli |-> 0]

\* const isAnomaly = error > threshold
IsAnomalous_nonStrict(error, thr) == ~thr.inf /\ error >= thr.v
IsAnomalous(error, thr) == ~thr.inf /\ error > thr.v

\* isAnomaly ? Math.min(1, error / (threshold * 2))
\*           : Math.min(1, 1 - error / threshold), then toFixed(3), for error >= 0.
\* error / 0 is +Infinity for error > 0 and NaN for error = 0; Math.min(1, NaN)
\* is NaN; error / Infinity is 0.
Confidence(error, thr) ==
  IF IsAnomalous(error, thr)
  THEN IF thr.v = 0 \/ error >= 2 * thr.v
       THEN Number(1000)
       ELSE Number(RoundDiv(1000 * error, 2 * thr.v))
  ELSE IF thr.inf THEN Number(1000)
       ELSE IF thr.v = 0
            THEN IF error = 0 THEN NaN ELSE Number(1000)
            ELSE Number(Min(1000, RoundDiv(1000 * (thr.v - error), thr.v)))

\* detectAnomalies with the window's last index + 1 in place of its centre
detectAnomalies_centreAtEnd(errors, thr, windowSize) ==
  [k \in 1..Len(errors) |->
     [windowIndex |-> k - 1,
      timestampCenter |-> (k - 1) + windowSize,
      reconstructionError |-> errors[k],
      isAnomaly |-> IsAnomalous(errors[k], thr),
      confidence |-> Confidence(errors[k], thr)]]

\* detectAnomalies: errors.map((error, i) => ({ ... })); position i + 1 of the
\* result is the array's index i
detectAnomalies(errors, thr, windowSize) ==
  [k \in 1..Len(errors) |->
     [windowIndex |-> k - 1,
      timestampCenter |-> (k - 1) + windowSize \div 2,
      reconstructionError |-> errors[k],
      isAnomaly |-> IsAnomalous(errors[k], thr),
      confidence |-> Confidence(errors[k], thr)]]

\* ------------------------------------------------ the classifier alone
\* SpecClassify: detectAnomalies applied to every error sequence of length
\* <= MaxLen over 0 .. MaxErr, every threshold in 0 .. MaxThreshold or
\* +Infinity, and the window sizes below.
SeqsUpTo(S, n) == UNION {[1..m -> S] : m \in 0..n}
ErrorInputs == SeqsUpTo(0..MaxErr, MaxLen)
ThresholdInputs == {Finite(v) : v \in 0..MaxThreshold} \cup {Infinity}
WindowSizeInputs == {1, 2, 3, WINDOW_SIZE}

InitClassify ==
  /\ DashInit /\ ModuleInit /\ ApiIdle
  /\ args \in {Some([errors |-> e, threshold |-> t, windowSize |-> w]) :
                 e \in ErrorInputs, t \in ThresholdInputs, w \in WindowSizeInputs}
  /\ result = None
  /\ locals = None

Classify ==
  /\ result = None
  /\ result' = Some(detectAnomalies(args[1].errors, args[1].threshold,
                                    args[1].windowSize))
  /\ UNCHANGED <<args, locals, dashVars, moduleVars, apiVars>>

NextClassify == Classify

SpecClassify == InitClassify /\ [][NextClassify]_vars

\* C9: detectAnomalies returns one DetectionResult per input error, in input
\* order, with windowIndex = i, timestampCenter = i + floor(windowSize/2),
\* reconstructionError the input error, and isAnomaly true iff error >
\* threshold (strictly); so threshold = +infinity yields no anomaly and
\* threshold = 0 flags exactly the windows with error > 0.
C9_DetectAnomalies ==
  result # None =>
    LET errors == args[1].errors
        thr == args[1].threshold
        dets == result[1]
        flagged == {k \in DOMAIN dets : dets[k].isAnomaly}
    IN /\ Len(dets) = Len(errors)
       /\ \A k \in DOMAIN dets :
            /\ dets[k].windowIndex = k - 1
            /\ 2 * (dets[k].timestampCenter - dets[k].windowIndex)
                 \in {args[1].windowSize, args[1].windowSize - 1}
            /\ dets[k].reconstructionError = errors[k]
            /\ dets[k].isAnomaly <=> (~thr.inf /\ thr.v < errors[k])
       /\ thr.inf => flagged = {}
       /\ thr = Finite(0) => flagged = {k \in DOMAIN errors : errors[k] > 0}

\* a classified sequence holding an error equal to the finite threshold
\* (normal) and a larger one (anomalous)
C9_Witness ==
  /\ result # None
  /\ ~args[1].threshold.inf
  /\ \E j, k \in DOMAIN result[1] :
       /\ args[1].errors[j] = args[1].threshold.v
       /\ ~result[1][j].isAnomaly
       /\ result[1][k].isAnomaly

\* m thousandths is num/den rounded to 3 decimals, halves up
IsRoundedMilli(m, num, den) ==
  2 * den * m - den <= 2000 * num /\ 2000 * num < 2 * den * m + den

\* C10: every DetectionResult's confidence is a number in [0,1], for every
\* error >= 0 and every threshold >= 0, threshold = 0 and +infinity included;
\* for anomalies it is min(1, error / (2*threshold)) and for normals
\* min(1, 1 - error/threshold), rounded to 3 decimals.
C10_ConfidenceInUnitInterval ==
  result # None =>
    \A k \in DOMAIN result[1] :
      LET c == result[1][k].confidence
          e == args[1].errors[k]
          t == args[1].threshold
      IN /\ ~c.nan
         /\ c.milli \in 0..1000
         /\ (~t.inf /\ t.v > 0 /\ result[1][k].isAnomaly) =>
              IF e >= 2 * t.v THEN c.milli = 1000
              ELSE IsRoundedMilli(c.milli, e, 2 * t.v)
         /\ (~t.inf /\ t.v > 0 /\ ~result[1][k].isAnomaly) =>
              IsRoundedMilli(c.milli, t.v - e, t.v)

\* ---------------------------------- lib/anomalyDetection: computeMetrics
\* Percentages are counted in tenths of a percent, which is what
\* parseFloat((x * 100).toFixed(1)) leaves: 1000 is 100.0.

\* groundTruth[gtIndex] for a 0-based index; outside the array the read gives
\* undefined, which every test of actualAnomaly treats as false
GroundTruthAt(groundTruth, gtIndex) ==
  IF gtIndex >= 0 /\ gtIndex < Len(groundTruth)
  THEN groundTruth[gtIndex + 1]
  ELSE FALSE

\* const gtIndex = Math.min(det.timestampCenter, groundTruth.length - 1)
GtIndex_wrapped(det, groundTruth) ==
  IF Len(groundTruth) = 0 THEN -1 ELSE det.timestampCenter % Len(groundTruth)
GtIndex(det, groundTruth) == Min(det.timestampCenter, Len(groundTruth) - 1)

\* the if / else-if chain of the forEach body: the cell one detection adds to
Cell(det, groundTruth) ==
  LET actualAnomaly == GroundTruthAt(groundTruth, GtIndex(det, groundTruth))
  IN  IF det.isAnomaly /\ actualAnomaly THEN "tp"
      ELSE IF ~det.isAnomaly /\ ~actualAnomaly THEN "tn"
      ELSE IF det.isAnomaly /\ ~actualAnomaly THEN "fp"
      ELSE "fn"

CountCell(dets, groundTruth, cell) ==
  Cardinality({k \in DOMAIN dets : Cell(dets[k], groundTruth) = cell})

\* den > 0 ? num / den : 0, then parseFloat((x * 100).toFixed(1))
PercentOf(num, den) == IF den > 0 THEN RoundDiv(1000 * num, den) ELSE 0

\* precision + recall > 0 ? (2 * precision * recall) / (precision + recall) : 0
\* with precision = tp/(tp+fp) and recall = tp/(tp+fn): both are 0 exactly
\* when tp = 0, and otherwise the quotient is 2tp / (2tp + fp + fn).
F1Score_withoutFactor(tp, fp, fn) ==
  IF tp > 0 THEN RoundDiv(1000 * tp, 2 * tp + fp + fn) ELSE 0
F1Score(tp, fp, fn) ==
  IF tp > 0 THEN RoundDiv(1000 * 2 * tp, 2 * tp + fp + fn) ELSE 0

computeMetrics(dets, groundTruth) ==
  LET tp == CountCell(dets, groundTruth, "tp")
      tn == CountCell(dets, groundTruth, "tn")
      fp == CountCell(dets, groundTruth, "fp")
      fn == CountCell(dets, groundTruth, "fn")
      total == tp + tn + fp + fn
  IN  [accuracy |-> PercentOf(tp + tn, total),
       precision |-> PercentOf(tp, tp + fp),
       recall |-> PercentOf(tp, tp + fn),
       f1Score |-> F1Score(tp, fp, fn),
       truePositives |-> tp,
       trueNegatives |-> tn,
       falsePositives |-> fp,
       falseNegatives |-> fn,
       totalAnomalies |->
         Cardinality({i \in DOMAIN groundTruth : groundTruth[i]}),
       detectedAnomalies |->
         Cardinality({k \in DOMAIN dets : dets[k].isAnomaly})]

\* ------------------------------------------------- the metrics alone
\* SpecMetrics: computeMetrics applied to the detections detectAnomalies
\* returns for every sequence of at most MaxLen errors that are below (1) or
\* above (2) the threshold 1, at the window sizes of SpecClassify, against
\* every label sequence of length <= MaxTruth.
FlagErrors == SeqsUpTo({1, 2}, MaxLen)
TruthInputs == SeqsUpTo(BOOLEAN, MaxTruth)

InitMetrics ==
  /\ DashInit /\ ModuleInit /\ ApiIdle
  /\ args \in {Some([detections |-> detectAnomalies(e, Finite(1), w),
                     groundTruth |-> g]) :
                 e \in FlagErrors, w \in WindowSizeInputs, g \in TruthInputs}
  /\ result = None
  /\ locals = None

Evaluate ==
  /\ result = None
  /\ result' = Some(computeMetrics(args[1].detections, args[1].groundTruth))
  /\ UNCHANGED <<args, locals, dashVars, moduleVars, apiVars>>

NextMetrics == Evaluate

SpecMetrics == InitMetrics /\ [][NextMetrics]_vars

\* the label the claims look up for detection k: the ground truth at the
\* centre of its window, or the last label when the centre lies beyond it
LabelAtCentre(k) ==
  LET g == args[1].groundTruth
      c == args[1].detections[k].timestampCenter
  IN  IF c <= Len(g) - 1 THEN g[c + 1] ELSE g[Len(g)]

\* C11: computeMetrics counts every detection in exactly one of TP, TN, FP,
\* FN, using the ground-truth label at index min(timestampCenter,
\* len(groundTruth) - 1), clamped and never wrapped: the four counts add up
\* to the number of detections, detectedAnomalies = TP + FP, and each cell is
\* the standard 2x2 cell of (detected, actual).
C11_ConfusionCounts ==
  result # None =>
    LET dets == args[1].detections
        m == result[1]
        Both(d, a) == Cardinality({k \in DOMAIN dets :
                        dets[k].isAnomaly = d /\ LabelAtCentre(k) = a})
    IN  /\ m.truePositives + m.trueNegatives + m.falsePositives
             + m.falseNegatives = Len(dets)
        /\ m.detectedAnomalies = m.truePositives + m.falsePositives
        /\ Len(args[1].groundTruth) > 0 =>
             /\ m.truePositives = Both(TRUE, TRUE)
             /\ m.trueNegatives = Both(FALSE, FALSE)
             /\ m.falsePositives = Both(TRUE, FALSE)
             /\ m.falseNegatives = Both(FALSE, TRUE)

\* a detection whose centre lies beyond the labels and whose clamped label
\* differs from the wrapped one, with every cell of the table populated
C11_Witness ==
  /\ result # None
  /\ Len(args[1].groundTruth) > 0
  /\ \E k \in DOMAIN args[1].detections :
       LET g == args[1].groundTruth
           c == args[1].detections[k].timestampCenter
       IN  c > Len(g) - 1 /\ g[Len(g)] # g[(c % Len(g)) + 1]
  /\ result[1].truePositives > 0
  /\ result[1].falsePositives > 0
  /\ result[1].falseNegatives > 0

\* every detection's flag equals the label looked up for it
ReproducesGroundTruth ==
  /\ Len(args[1].groundTruth) > 0
  /\ \A k \in DOMAIN args[1].detections :
       args[1].detections[k].isAnomaly = LabelAtCentre(k)

\* C12 as stated: for every detection sequence whose isAnomaly flags exactly
\* reproduce the ground truth at the looked-up indices, computeMetrics
\* returns accuracy = precision = recall = f1Score = 100 and falsePositives =
\* falseNegatives = 0.
C12_PerfectScores ==
  (result # None /\ ReproducesGroundTruth) =>
    /\ result[1].accuracy = 1000
    /\ result[1].precision = 1000
    /\ result[1].recall = 1000
    /\ result[1].f1Score = 1000
    /\ result[1].falsePositives = 0
    /\ result[1].falseNegatives = 0

\* C12, amended: for every detection sequence whose isAnomaly flags exactly
\* reproduce the ground truth at the looked-up indices, falsePositives =
\* falseNegatives = 0; accuracy is 100 when there is at least one detection
\* and 0 when there is none; precision, recall and f1Score are 100 when at
\* least one detection is anomalous and 0 when none is (the zero-denominator
\* branches).
C12_PerfectScoresWhereDefined ==
  (result # None /\ ReproducesGroundTruth) =>
    LET m == result[1]
        some == Len(args[1].detections) > 0
        hit == \E k \in DOMAIN args[1].detections :
                 args[1].detections[k].isAnomaly
        AllThree(p) == m.precision = p /\ m.recall = p /\ m.f1Score = p
    IN  /\ m.falsePositives = 0
        /\ m.falseNegatives = 0
        /\ m.accuracy = IF some THEN 1000 ELSE 0
        /\ IF hit THEN AllThree(1000) ELSE AllThree(0)

\* a perfect classification with an anomaly and a normal window in it
C12_Witness ==
  /\ result # None
  /\ ReproducesGroundTruth
  /\ result[1].truePositives > 0
  /\ result[1].trueNegatives > 0
  /\ result[1].f1Score = 1000

\* --------------------------------------- lib/insights: generateInsights
\* An insight keeps the fields the code sets apart from icon and timestamp;
\* its id is a name and, for `spike-${i}` and `cluster-${i}`, an index; its
\* message is the words and the numbers the template literal interpolates.
\* The series is the sequence of the samples' moisture values.

\* Math.abs(delta) > 20, in hundredths
SpikeDelta == 2000
\* last20 = data.slice(-20); trend < -10, trend > 10, in hundredths
TrendSamples == 20
TrendDelta == 1000
\* avgMoisture < 30, avgMoisture > 70
LowMoisture == 30
HighMoisture == 70
\* anomalyTimesteps[i + 2] - anomalyTimesteps[i] < 15
ClusterSpan == 15
\* .slice(0, 8)
MaxInsights == 8

Abs(x) == IF x < 0 THEN -x ELSE x

RECURSIVE Sum(_)
Sum(s) == IF s = <<>> THEN 0 ELSE Head(s) + Sum(Tail(s))

Insight(name, index, type, timestep, words, numbers) ==
  [id |-> [name |-> name, index |-> index], type |-> type,
   timestep |-> timestep, message |-> [words |-> words, numbers |-> numbers]]

\* detections.filter(d => d.isAnomaly)
AnomalousDetections(dets) == SelectSeq(dets, LAMBDA d : d.isAnomaly)

\* 1. anomalyCount === 0
Rule1(dets) ==
  IF Len(AnomalousDetections(dets)) = 0
  THEN <<Insight("stable", None, "success", None, <<>>, <<>>)>>
  ELSE <<>>

\* 2. anomalyRate = anomalyCount / Math.max(detections.length, 1) > 0.15
HighRate_nonStrict(anomalyCount, windows) ==
  100 * anomalyCount >= 15 * Max(windows, 1)
HighRate(anomalyCount, windows) == 100 * anomalyCount > 15 * Max(windows, 1)

Rule2(dets) ==
  LET anomalyCount == Len(AnomalousDetections(dets))
  IN  IF HighRate(anomalyCount, Len(dets))
      THEN <<Insight("high-rate", None, "critical", None, <<>>,
                     <<RoundDiv(1000 * anomalyCount, Max(Len(dets), 1))>>)>>
      ELSE <<>>

\* 3. for (let i = 1; i < data.length; i++): data[i] is position i + 1
IsSpike_nonStrict(delta) == Abs(delta) >= SpikeDelta
IsSpike(delta) == Abs(delta) > SpikeDelta

SpikeInsight(data, i) ==
  LET delta == data[i + 1] - data[i]
  IN  Insight("spike", Some(i), "warning", Some(i),
              <<IF delta > 0 THEN "spike" ELSE "drop">>,
              <<i, RoundDiv(Abs(delta), 10), RoundDiv(data[i], 10),
                RoundDiv(data[i + 1], 10)>>)

Rule3(data) ==
  LET steps == SelectSeq([i \in 1..(Len(data) - 1) |-> i],
                         LAMBDA i : IsSpike(data[i + 1] - data[i]))
  IN  [k \in 1..Len(steps) |-> SpikeInsight(data, steps[k])]

\* 4. the trend over the last 20 samples
Rule4(data) ==
  IF Len(data) >= TrendSamples
  THEN LET trend == data[Len(data)] - data[Len(data) - TrendSamples + 1]
       IN  IF trend < -TrendDelta
           THEN <<Insight("rapid-decrease", None, "warning", None, <<>>,
                          <<RoundDiv(Abs(trend), 10)>>)>>
           ELSE IF trend > TrendDelta
           THEN <<Insight("rapid-increase", None, "info", None, <<>>,
                          <<RoundDiv(trend, 10)>>)>>
           ELSE <<>>
  ELSE <<>>

\* 5. avgMoisture = sum / data.length against 30 and 70
Rule5(data) ==
  LET total == Sum(data)
      shown == <<RoundDiv(total, 10 * Len(data))>>
  IN  IF total < 100 * LowMoisture * Len(data)
      THEN <<Insight("low-moisture", None, "critical", None, <<>>, shown)>>
      ELSE IF total > 100 * HighMoisture * Len(data)
      THEN <<Insight("high-moisture", None, "warning", None, <<>>, shown)>>
      ELSE <<Insight("optimal-moisture", None, "info", None, <<>>, shown)>>

\* 6. Math.abs(avgError * 2.5 - threshold) > 0.05 && detections.length > 0,
\* in thousandths and multiplied through by 2 * detections.length
Rule6(dets, thr) ==
  LET total == Sum([k \in 1..Len(dets) |-> dets[k].reconstructionError])
      n == Len(dets)
  IN  IF n > 0 /\ Abs(5 * total - 2 * n * thr) > 100 * n
      THEN <<Insight("threshold-suggestion", None, "info", None, <<>>,
                     <<RoundDiv(5 * total, 2 * n), thr>>)>>
      ELSE <<>>

\* 7. the first i with anomalyTimesteps[i + 2] - anomalyTimesteps[i] < 15,
\* then break; anomalyTimesteps[i] is position i + 1
AnomalyTimesteps(dets) ==
  LET anomalous == AnomalousDetections(dets)
  IN  [k \in 1..Len(anomalous) |-> anomalous[k].timestampCenter]

ClusterInsight(ts, i) ==
  Insight("cluster", Some(i), "critical", Some(ts[i + 2]), <<>>, <<ts[i + 2]>>)

ClusterStarts(ts) ==
  {i \in 0..(Len(ts) - 3) : ts[i + 3] - ts[i + 1] < ClusterSpan}

Rule7_withoutBreak(dets) ==
  LET ts == AnomalyTimesteps(dets)
      starts == SelectSeq([k \in 1..(Len(ts) - 2) |-> k - 1],
                          LAMBDA i : i \in ClusterStarts(ts))
  IN  [k \in 1..Len(starts) |-> ClusterInsight(ts, starts[k])]
Rule7(dets) ==
  LET ts == AnomalyTimesteps(dets)
      starts == ClusterStarts(ts)
  IN  IF starts = {} THEN <<>>
      ELSE <<ClusterInsight(ts, CHOOSE i \in starts :
                                  \A j \in starts : i <= j)>>

\* the insights array before the sort, in push order
EmittedInsights(data, dets, thr) ==
  IF Len(data) = 0 THEN <<>>
  ELSE Rule1(dets) \o Rule2(dets) \o Rule3(data) \o Rule4(data)
         \o Rule5(data) \o Rule6(dets, thr) \o Rule7(dets)

\* the ranks the other way round: success first, critical last
order_reversed(type) ==
  CASE type = "critical" -> 3
    [] type = "warning" -> 2
    [] type = "info" -> 1
    [] type = "success" -> 0

\* const order = { critical: 0, warning: 1, info: 2, success: 3 }
order(type) ==
  CASE type = "critical" -> 0
    [] type = "warning" -> 1
    [] type = "info" -> 2
    [] type = "success" -> 3

\* Array.prototype.sort is stable: with the comparator order[a.type] -
\* order[b.type] it leaves the elements of each rank in their former order,
\* the ranks ascending
SortByOrder(s) ==
  SelectSeq(s, LAMBDA x : order(x.type) = 0)
    \o SelectSeq(s, LAMBDA x : order(x.type) = 1)
    \o SelectSeq(s, LAMBDA x : order(x.type) = 2)
    \o SelectSeq(s, LAMBDA x : order(x.type) = 3)

\* insights.sort(...).slice(0, 8)
SortAndSlice_sliceFirst(s) == SortByOrder(SubSeq(s, 1, Min(MaxInsights, Len(s))))
SortAndSlice(s) ==
  LET sorted == SortByOrder(s)
  IN  SubSeq(sorted, 1, Min(MaxInsights, Len(sorted)))

generateInsights(data, dets, thr) ==
  SortAndSlice(EmittedInsights(data, dets, thr))

\* ------------------------------------------------ the insights alone
\* SpecInsights: generateInsights applied to
\*   - every moisture series of length <= MaxData over ShortLevels, and the
\*     series of 6, 20 and 24 samples that alternate between two of
\*     MoistureLevels (20 samples are what rule 4 needs; 24 hold 23 jumps);
\*   - the detections detectAnomalies returns for no window at all, and for
\*     20 windows of which any subset of ClusterWindows has the high error;
\*   - the thresholds of ThresholdChoices.
ShortLevels == {1000, 4000, 6000, 6500}
MoistureLevels == ShortLevels \cup {6004, 9000}
LongSeries == {[k \in 1..(2 * n) |-> IF k % 2 = 1 THEN a ELSE b] :
                 a \in MoistureLevels, b \in MoistureLevels, n \in {3, 10, 12}}
DataInputs == SeqsUpTo(ShortLevels, MaxData) \cup LongSeries

InsightWindows == 20
ClusterWindows == {0, 2, 9, 17, 18}
LowError == 5
HighError == 300
WindowErrors ==
  {<<>>} \cup {[k \in 1..InsightWindows |->
                  IF (k - 1) \in A THEN HighError ELSE LowError] :
                 A \in SUBSET ClusterWindows}

InitInsights ==
  /\ DashInit /\ ModuleInit /\ ApiIdle
  /\ args \in {Some([data |-> d,
                     detections |-> detectAnomalies(e, Finite(t), WINDOW_SIZE),
                     threshold |-> t]) :
                 d \in DataInputs, e \in WindowErrors, t \in ThresholdChoices}
  /\ result = None
  /\ locals = None

\* locals keeps the insights array as it is before the sort
GenerateInsights ==
  /\ result = None
  /\ locals' = Some(EmittedInsights(args[1].data, args[1].detections,
                                    args[1].threshold))
  /\ result' = Some(generateInsights(args[1].data, args[1].detections,
                                     args[1].threshold))
  /\ UNCHANGED <<args, dashVars, moduleVars, apiVars>>

NextInsights == GenerateInsights

SpecInsights == InitInsights /\ [][NextInsights]_vars

\* where the returned insight at position j stood in the array before the
\* sort (ids are unique in it)
EmittedAt(j) == CHOOSE p \in DOMAIN locals[1] : locals[1][p] = result[1][j]

\* C13: generateInsights returns at most 8 insights ordered by severity rank
\* critical < warning < info < success; insights of equal severity keep the
\* order in which the rules emitted them; and the result is the first 8 of
\* the stably sorted list: every emitted insight left out ranks after every
\* returned one, or equal to it and emitted later.
C13_SortedStableTruncated ==
  result # None =>
    LET emitted == locals[1]
        ret == result[1]
        kept == {EmittedAt(j) : j \in DOMAIN ret}
    IN  /\ Len(ret) = Min(8, Len(emitted))
        /\ \A j \in DOMAIN ret : \E p \in DOMAIN emitted : emitted[p] = ret[j]
        /\ \A j, k \in DOMAIN ret :
             j < k =>
               \/ order(ret[j].type) < order(ret[k].type)
               \/ /\ ret[j].type = ret[k].type
                  /\ EmittedAt(j) < EmittedAt(k)
        /\ \A p \in DOMAIN emitted \ kept :
             \A j \in DOMAIN ret :
               \/ order(ret[j].type) < order(emitted[p].type)
               \/ /\ ret[j].type = emitted[p].type
                  /\ EmittedAt(j) < p

\* more than 8 insights were emitted, some insight was emitted before one of
\* higher severity, and the returned list holds three severities
C13_Witness ==
  /\ result # None
  /\ Len(locals[1]) > 8
  /\ \E p, q \in DOMAIN locals[1] :
       p < q /\ order(locals[1][p].type) > order(locals[1][q].type)
  /\ Cardinality({result[1][j].type : j \in DOMAIN result[1]}) >= 3

\* the emitted insights whose id has the given name, in emission order
EmittedNamed(name) == SelectSeq(locals[1], LAMBDA x : x.id.name = name)

\* C14: for non-empty data, rule 1 emits 'stable' (success) exactly when no
\* detection is anomalous, and rule 2 emits 'high-rate' (critical) exactly
\* when anomalyCount / totalWindows > 0.15, each at most once and each
\* whatever the other inputs are.
C14_StableAndHighRate ==
  (result # None /\ Len(args[1].data) > 0) =>
    LET dets == args[1].detections
        anomalyCount == Cardinality({k \in DOMAIN dets : dets[k].isAnomaly})
        stable == EmittedNamed("stable")
        highRate == EmittedNamed("high-rate")
    IN  /\ Len(stable) = IF anomalyCount = 0 THEN 1 ELSE 0
        /\ \A k \in DOMAIN stable : stable[k].type = "success"
        /\ Len(highRate) = IF Len(dets) > 0 /\ 20 * anomalyCount > 3 * Len(dets)
                           THEN 1 ELSE 0
        /\ \A k \in DOMAIN highRate : highRate[k].type = "critical"

\* rule 2 fired for 4 anomalous windows of 20, and rule 1 did not
C14_Witness ==
  /\ result # None
  /\ Len(args[1].detections) = 20
  /\ Len(AnomalousDetections(args[1].detections)) = 4
  /\ Len(EmittedNamed("high-rate")) = 1
  /\ Len(EmittedNamed("stable")) = 0

\* m is x printed with toFixed(1): the count of tenths nearest to x
\* hundredths, a tie going up
IsRoundedTenth(m, x) == 10 * m - 5 <= x /\ x < 10 * m + 5

\* C15: before sorting and truncation, rule 3 has emitted exactly one
\* warning insight for every adjacent pair (i-1, i) of samples with
\* |moisture[i] - moisture[i-1]| > 20 (strictly) and none for any other
\* pair; the insight carries timestep i, the direction 'spike' for a rise
\* and 'drop' for a fall, and the magnitude to one decimal.
C15_SpikePerJump ==
  result # None =>
    LET data == args[1].data
        spikes == EmittedNamed("spike")
        Delta(i) == data[i + 1] - data[i]
    IN  /\ \A i \in 1..(Len(data) - 1) :
             Cardinality({k \in DOMAIN spikes : spikes[k].timestep = Some(i)})
               = IF Delta(i) > 2000 \/ Delta(i) < -2000 THEN 1 ELSE 0
        /\ \A k \in DOMAIN spikes :
             /\ spikes[k].type = "warning"
             /\ spikes[k].timestep # None
             /\ spikes[k].timestep[1] \in 1..(Len(data) - 1)
             /\ LET d == Delta(spikes[k].timestep[1])
                IN  /\ spikes[k].message.words
                         = <<IF d > 0 THEN "spike" ELSE "drop">>
                    /\ IsRoundedTenth(spikes[k].message.numbers[2],
                                      IF d > 0 THEN d ELSE -d)

\* 40 then 65 gave a spike of 25.0 at timestep 1, and 65 then 40 a drop
C15_Witness ==
  /\ result # None
  /\ args[1].data = <<4000, 6500, 4000, 6500, 4000, 6500>>
  /\ \E k \in DOMAIN locals[1] :
       /\ locals[1][k].timestep = Some(1)
       /\ locals[1][k].message.words = <<"spike">>
       /\ locals[1][k].message.numbers[2] = 250
  /\ \E k \in DOMAIN locals[1] : locals[1][k].message.words = <<"drop">>

\* C16: rule 7 emits at most one cluster insight: with c the centres of the
\* anomalous detections in window order, it emits one critical insight for
\* the first i with c[i+2] - c[i] < 15, with timestep c[i+1], and nothing
\* when there are fewer than three anomalous detections or no such triple
\* (data being non-empty, so that the rules run).
C16_FirstClusterOnly ==
  (result # None /\ Len(args[1].data) > 0) =>
    LET dets == args[1].detections
        c == [k \in 1..Len(AnomalousDetections(dets)) |->
                AnomalousDetections(dets)[k].timestampCenter]
        Close(i) == c[i + 3] - c[i + 1] < 15
        clusters == EmittedNamed("cluster")
    IN  IF \E i \in 0..(Len(c) - 3) : Close(i)
        THEN /\ Len(clusters) = 1
             /\ clusters[1].type = "critical"
             /\ LET i == clusters[1].id.index[1]
                IN  /\ i \in 0..(Len(c) - 3)
                    /\ Close(i)
                    /\ \A j \in 0..(i - 1) : ~Close(j)
                    /\ clusters[1].timestep = Some(c[i + 2])
        ELSE Len(clusters) = 0

\* the first triple of anomalous windows is not a cluster, a later one is
C16_Witness ==
  /\ result # None
  /\ Len(EmittedNamed("cluster")) = 1
  /\ EmittedNamed("cluster")[1].id.index[1] > 0

\* ------------------------------------- lib/dataGenerator: generateSoilData
\* Math.random() returns r / RandomLevels for some r in Draws.  Math.sin is
\* not computed: 45 + 10 sin(..) + 5 sin(..) lies in [30, 60], and the base
\* signal of a sample is any of the lowest, the middle and the highest value
\* of that range.
Draws == 0..(RandomLevels - 1)
BaseLevels == {3000, 4500, 6000}
\* the draws taken for the noise: the lowest, the middle and the highest
NoiseDraws == {0, RandomLevels \div 2, RandomLevels - 1}

\* noise = (Math.random() - 0.5) * 4; Math.max(20, Math.min(80, base + noise))
generateNormalMoisture(base, r) ==
  LET noise == (400 * r) \div RandomLevels - 200
  IN  Max(2000, Min(8000, base + noise))

\* Math.floor(Math.random() * (numPoints - 40)) + 20
AnomalyPosition_noMargin(numPoints, r) ==
  (r * (numPoints - 2 * EdgeMargin)) \div RandomLevels
AnomalyPosition(numPoints, r) ==
  (r * (numPoints - 2 * EdgeMargin)) \div RandomLevels + EdgeMargin

\* magnitude = 20 + anomalyIntensity * 30, the intensity in tenths
Magnitude(anomalyIntensity) == 2000 + anomalyIntensity * 300

\* type = Math.random() > 0.5 ? 'spike' : 'drop', then the clamped value
AnomalyValue(baseMoisture, r, anomalyIntensity) ==
  IF 2 * r > RandomLevels
  THEN Min(10000, baseMoisture + Magnitude(anomalyIntensity))
  ELSE Max(0, baseMoisture - Magnitude(anomalyIntensity))

\* ----------------------------------------------- the generator alone
\* SpecGenerate: one call of generateSoilData(numPoints, anomalyIntensity).
\* locals holds anomalySet and the data array; the array is kept as its
\* length, the timestamps of its samples flagged isAnomaly, and the sample
\* pushed last.
NumPointsInputs == {NumPointsMin, 113}
IntensityInputs == {0, 5, 10}

InitGenerate ==
  /\ DashInit /\ ModuleInit /\ ApiIdle
  /\ args \in {Some([numPoints |-> n, anomalyIntensity |-> a]) :
                 n \in NumPointsInputs, a \in IntensityInputs}
  /\ locals = Some([anomalySet |-> {},
                    data |-> [length |-> 0, flagged |-> {}, last |-> None]])
  /\ result = None

\* while (anomalySet.size < anomalyCount) anomalySet.add(...)
DrawAnomaly ==
  /\ result = None
  /\ Cardinality(locals[1].anomalySet) < AnomalyCount(args[1].numPoints)
  /\ \E r \in Draws :
       locals' = Some([locals[1] EXCEPT !.anomalySet =
                         @ \cup {AnomalyPosition(args[1].numPoints, r)}])
  /\ UNCHANGED <<args, result, dashVars, moduleVars, apiVars>>

\* data.push(sample)
Push(data, sample) ==
  [length |-> data.length + 1,
   flagged |-> IF sample.isAnomaly
               THEN data.flagged \cup {sample.timestamp}
               ELSE data.flagged,
   last |-> Some(sample)]

\* one iteration of for (let i = 0; i < numPoints; i++), i = data.length;
\* the anomaly branch alone draws the type
PushSample ==
  /\ result = None
  /\ Cardinality(locals[1].anomalySet) >= AnomalyCount(args[1].numPoints)
  /\ locals[1].data.length < args[1].numPoints
  /\ \E base \in BaseLevels, rNoise \in NoiseDraws :
       LET i == locals[1].data.length
           baseMoisture == generateNormalMoisture(base, rNoise)
       IN  IF i \in locals[1].anomalySet
           THEN \E rType \in Draws :
                  locals' = Some([locals[1] EXCEPT !.data = Push(@,
                    [timestamp |-> i,
                     moisture |-> AnomalyValue(baseMoisture, rType,
                                               args[1].anomalyIntensity),
                     isAnomaly |-> TRUE])])
           ELSE locals' = Some([locals[1] EXCEPT !.data = Push(@,
                    [timestamp |-> i, moisture |-> baseMoisture,
                     isAnomaly |-> FALSE])])
  /\ UNCHANGED <<args, result, dashVars, moduleVars, apiVars>>

\* return data
ReturnData ==
  /\ result = None
  /\ Cardinality(locals[1].anomalySet) >= AnomalyCount(args[1].numPoints)
  /\ locals[1].data.length >= args[1].numPoints
  /\ result' = Some(locals[1].data)
  /\ UNCHANGED <<args, locals, dashVars, moduleVars, apiVars>>

NextGenerate == DrawAnomaly \/ PushSample \/ ReturnData

SpecGenerate == InitGenerate /\ [][NextGenerate]_vars

\* C17: for numPoints >= 100 and an intensity in [0, 1], generateSoilData
\* returns exactly numPoints samples whose timestamps are their positions
\* 0 .. numPoints - 1, every moisture is in [0, 100], exactly
\* floor(0.08 * numPoints) samples are flagged isAnomaly, and every flagged
\* index i has 20 <= i < numPoints - 20, whatever the random source gives.
C17_GeneratedSeries ==
  LET n == args[1].numPoints
      data == locals[1].data
  IN  /\ data.last # None =>
           /\ data.last[1].timestamp = data.length - 1
           /\ data.last[1].moisture >= 0
           /\ data.last[1].moisture <= 10000
           /\ data.last[1].isAnomaly <=> (data.last[1].timestamp \in data.flagged)
      /\ \A t \in data.flagged : 20 <= t /\ t < n - 20
      /\ result # None =>
           /\ result[1].length = n
           /\ Cardinality(result[1].flagged) = (8 * n) \div 100

\* a returned series of 113 samples at full intensity that flags index 20,
\* the earliest the random source can choose
C17_Witness ==
  /\ result # None
  /\ args[1].numPoints = 113
  /\ args[1].anomalyIntensity = 10
  /\ Cardinality(result[1].flagged) = 9
  /\ 20 \in result[1].flagged

\* ------------------- lib/dataGenerator: createWindows, normalizeWindows
\* A number is a fraction n / d in lowest terms with d >= 0; d = 0 stands for
\* what IEEE division by zero gives: 1/0 is +Infinity, -1/0 is -Infinity and
\* 0/0 is NaN.
RECURSIVE GCD(_, _)
GCD(a, b) == IF b = 0 THEN a ELSE GCD(b, a % b)

Ratio(n, d) ==
  IF d = 0
  THEN [n |-> IF n > 0 THEN 1 ELSE IF n < 0 THEN -1 ELSE 0, d |-> 0]
  ELSE LET g == GCD(Abs(n), Abs(d))
           s == IF d < 0 THEN -1 ELSE 1
       IN  [n |-> (s * n) \div g, d |-> (s * d) \div g]

Whole(v) == Ratio(v, 1)
Minus(a, b) == Ratio(a.n * b.d - b.n * a.d, a.d * b.d)
Plus(a, b) == Ratio(a.n * b.d + b.n * a.d, a.d * b.d)
Over(a, b) == Ratio(a.n * b.d, a.d * b.n)
LessEq(a, b) == a.n * b.d <= b.n * a.d

\* for (let i = 0; i <= data.length - windowSize; i++)
\*   windows.push(data.slice(i, i + windowSize))
LastStart_exclusive(len, windowSize) == len - windowSize - 1
LastStart(len, windowSize) == len - windowSize

createWindows(data, windowSize) ==
  [k \in 1..Max(0, LastStart(Len(data), windowSize) + 1) |->
     SubSeq(data, k, k + windowSize - 1)]

\* windows.flat(), as the set of its values
FlatValues(windows) ==
  UNION {{windows[k][j] : j \in DOMAIN windows[k]} : k \in DOMAIN windows}

\* Math.min(...flat) and Math.max(...flat): +Infinity and -Infinity when
\* flat is empty
MathMin(S) ==
  IF S = {} THEN Ratio(1, 0)
  ELSE CHOOSE x \in S : \A y \in S : LessEq(x, y)
MathMax(S) ==
  IF S = {} THEN Ratio(-1, 0)
  ELSE CHOOSE x \in S : \A y \in S : LessEq(y, x)

\* const range = max - min || 1
Range_withoutFallback(min, max) == Minus(max, min)
Range_plusOne(min, max) == Plus(Minus(max, min), Whole(1))
Range(min, max) ==
  LET difference == Minus(max, min)
  IN  IF difference.n = 0 THEN Whole(1) ELSE difference

normalizeWindows(windows) ==
  LET flat == FlatValues(windows)
      min == MathMin(flat)
      max == MathMax(flat)
      range == Range(min, max)
  IN  [normalized |->
         [k \in DOMAIN windows |->
            [j \in DOMAIN windows[k] |-> Over(Minus(windows[k][j], min), range)]],
       min |-> min, max |-> max]

\* ------------------------------------------------- the framing alone
\* SpecWindows: createWindows applied to every series of at most MaxValues
\* values of ValueLevels at every window size 1 .. MaxWindow, then
\* normalizeWindows applied to the windows and, MaxPasses times in all, to
\* its own normalized output.  locals holds the batch normalizeWindows was
\* last given and the number of its calls.
ValueLevels == {2, 5, 6}
ValueInputs == {[k \in DOMAIN s |-> Whole(s[k])] :
                  s \in SeqsUpTo(ValueLevels, MaxValues)}

InitWindows ==
  /\ DashInit /\ ModuleInit /\ ApiIdle
  /\ args \in {Some([data |-> d, windowSize |-> w]) :
                 d \in ValueInputs, w \in 1..MaxWindow}
  /\ locals = None
  /\ result = None

CreateWindows ==
  /\ locals = None
  /\ locals' = Some([batch |-> createWindows(args[1].data, args[1].windowSize),
                     passes |-> 0])
  /\ UNCHANGED <<args, result, dashVars, moduleVars, apiVars>>

NormalizeWindows ==
  /\ locals # None
  /\ locals[1].passes < MaxPasses
  /\ LET batch == IF result = None THEN locals[1].batch
                  ELSE result[1].normalized
     IN  /\ locals' = Some([batch |-> batch, passes |-> locals[1].passes + 1])
         /\ result' = Some(normalizeWindows(batch))
  /\ UNCHANGED <<args, dashVars, moduleVars, apiVars>>

NextWindows == CreateWindows \/ NormalizeWindows

SpecWindows == InitWindows /\ [][NextWindows]_vars

\* C18: createWindows(values, w) for w >= 1 returns exactly
\* max(0, len(values) - w + 1) windows, none when len(values) < w; window k
\* is values[k .. k+w-1], so every window has length w and consecutive
\* windows overlap: window[k+1][j] = window[k][j+1] for 0 <= j < w-1.
C18_SlidingWindows ==
  (locals # None /\ locals[1].passes = 0) =>
    LET values == args[1].data
        w == args[1].windowSize
        windows == locals[1].batch
    IN  /\ Len(windows) = IF Len(values) < w THEN 0 ELSE Len(values) - w + 1
        /\ \A k \in DOMAIN windows :
             /\ Len(windows[k]) = w
             /\ \A j \in 1..w : windows[k][j] = values[k + j - 1]
        /\ \A k \in DOMAIN windows :
             k + 1 \in DOMAIN windows =>
               \A j \in 1..(w - 1) : windows[k + 1][j] = windows[k][j + 1]

\* two overlapping windows of more than one value, the last one ending at
\* the last value
C18_Witness ==
  /\ locals # None
  /\ locals[1].passes = 0
  /\ args[1].windowSize > 1
  /\ Len(locals[1].batch) = 2
  /\ locals[1].batch[1] # locals[1].batch[2]

\* C19: normalizeWindows uses one global minimum and maximum over all the
\* values of all the windows and maps every value v to
\* (v - min) / (max - min), a number in [0, 1]: the global minimum goes to 0
\* and, when max > min, the global maximum goes to 1; when all values are
\* equal every normalized value is 0 and nothing is divided by zero.
C19_MinMaxScaling ==
  result # None =>
    LET windows == locals[1].batch
        out == result[1].normalized
        min == result[1].min
        max == result[1].max
        Cells(P(_, _)) ==
          \A k \in DOMAIN windows : \A j \in DOMAIN windows[k] : P(k, j)
        Holds(v) == \E k \in DOMAIN windows : \E j \in DOMAIN windows[k] :
                      windows[k][j] = v
        Scaled(k, j) ==
          LET v == windows[k][j]
              x == out[k][j]
          IN  /\ LessEq(min, v) /\ LessEq(v, max)
              /\ x.d > 0
              /\ 0 <= x.n /\ x.n <= x.d
              /\ v = min => x.n = 0
              /\ (max # min /\ v = max) => x = Whole(1)
              /\ max # min => x = Over(Minus(v, min), Minus(max, min))
    IN  /\ DOMAIN out = DOMAIN windows
        /\ \A k \in DOMAIN windows : DOMAIN out[k] = DOMAIN windows[k]
        /\ windows # <<>> => Holds(min) /\ Holds(max)
        /\ Cells(Scaled)

\* a batch of all-equal values was normalized
C19_Witness ==
  /\ result # None
  /\ locals[1].passes = 1
  /\ Len(locals[1].batch) > 1
  /\ result[1].min = result[1].max
  /\ result[1].min = Whole(5)

\* C20: normalizeWindows is idempotent: for every non-empty batch, applying
\* it to its own normalized output returns that output unchanged, for
\* batches with max > min and for constant batches.
C20_Idempotent ==
  (result # None /\ locals[1].passes >= 2 /\ locals[1].batch # <<>>) =>
    result[1].normalized = locals[1].batch

\* the second call was given an output that holds a value strictly between
\* 0 and 1
C20_Witness ==
  /\ result # None
  /\ locals[1].passes = 2
  /\ \E k \in DOMAIN locals[1].batch :
       \E j \in DOMAIN locals[1].batch[k] :
         LET x == locals[1].batch[k][j]
         IN  0 < x.n /\ x.n < x.d

\* ------------------------------------------ lib/dataGenerator: parseCSV
\* A string is the sequence of its characters.  A file is its header line
\* and its data rows after csvText.trim().split('\n'); a row is the sequence
\* of its fields after line.split(',').map(p => p.trim()).  A parsed float
\* is Number(thousandths) or NaN; a parsed integer is Some(value) or None
\* for NaN.
DigitValue(c) ==
  CASE c = "0" -> 0 [] c = "1" -> 1 [] c = "2" -> 2 [] c = "3" -> 3
    [] c = "4" -> 4 [] c = "5" -> 5 [] c = "6" -> 6 [] c = "7" -> 7
    [] c = "8" -> 8 [] c = "9" -> 9
DigitChars == {"0", "1", "2", "3", "4", "5", "6", "7", "8", "9"}

\* the length of the longest prefix of s made of digits
RECURSIVE DigitsPrefix(_)
DigitsPrefix(s) ==
  IF s # <<>> /\ Head(s) \in DigitChars THEN 1 + DigitsPrefix(Tail(s)) ELSE 0

\* the value of a sequence of digits
RECURSIVE DigitsValue(_)
DigitsValue(s) ==
  IF s = <<>> THEN 0
  ELSE 10 * DigitsValue(SubSeq(s, 1, Len(s) - 1)) + DigitValue(s[Len(s)])

\* the thousandths the digits after the decimal point stand for (three
\* digits at most are kept)
FractionMilli(s) ==
  LET d == [k \in 1..3 |-> IF k <= Len(s) THEN DigitValue(s[k]) ELSE 0]
  IN  100 * d[1] + 10 * d[2] + d[3]

\* parseFloat: an optional sign, digits, an optional point and digits; the
\* longest such prefix is the value, and NaN when it holds no digit
parseFloat(s) ==
  LET signed == s # <<>> /\ Head(s) \in {"-", "+"}
      body == IF signed THEN Tail(s) ELSE s
      nInt == DigitsPrefix(body)
      rest == SubSeq(body, nInt + 1, Len(body))
      fraction == IF rest # <<>> /\ Head(rest) = "." THEN Tail(rest) ELSE <<>>
      nFrac == DigitsPrefix(fraction)
      magnitude == 1000 * DigitsValue(SubSeq(body, 1, nInt))
                     + FractionMilli(SubSeq(fraction, 1, nFrac))
  IN  IF nInt + nFrac = 0 THEN NaN
      ELSE Number(IF signed /\ Head(s) = "-" THEN -magnitude ELSE magnitude)

\* parseInt: an optional sign and digits; NaN when there is no digit
parseInt(s) ==
  LET signed == s # <<>> /\ Head(s) \in {"-", "+"}
      body == IF signed THEN Tail(s) ELSE s
      nInt == DigitsPrefix(body)
      magnitude == DigitsValue(SubSeq(body, 1, nInt))
  IN  IF nInt = 0 THEN None
      ELSE Some(IF signed /\ Head(s) = "-" THEN -magnitude ELSE magnitude)

\* parts[k] of a row for a 0-based k; a missing part is undefined, which
\* parseFloat and parseInt read as the string "undefined" (NaN)
Part(parts, k) == IF k < Len(parts) THEN parts[k + 1] ELSE <<"u">>

\* parseFloat(x) || 50: NaN and 0 are both falsy
MoistureOrDefault(x) == IF x.nan \/ x.milli = 0 THEN Number(50000) ELSE x

\* parseInt(x) || i
TimestampOrIndex(x, i) == IF x = None \/ x[1] = 0 THEN i ELSE x[1]

\* header.toLowerCase().includes('moisture')
ToLowerCase(s) ==
  [k \in DOMAIN s |-> CASE s[k] = "M" -> "m" [] s[k] = "O" -> "o"
                        [] s[k] = "I" -> "i" [] s[k] = "S" -> "s"
                        [] s[k] = "T" -> "t" [] s[k] = "U" -> "u"
                        [] s[k] = "R" -> "r" [] s[k] = "E" -> "e"
                        [] OTHER -> s[k]]
Includes(s, word) ==
  \E k \in 1..(Len(s) - Len(word) + 1) : SubSeq(s, k, k + Len(word) - 1) = word
hasMoisture(header) ==
  Includes(ToLowerCase(header), <<"m", "o", "i", "s", "t", "u", "r", "e">>)

\* lines.slice(1).map((line, i) => ...).filter(p => !isNaN(p.moisture)); row
\* i is position i + 1
parseCSV(header, rows) ==
  LET sample(i) ==
        IF hasMoisture(header)
        THEN [timestamp |-> TimestampOrIndex(parseInt(Part(rows[i + 1], 0)), i),
              moisture |-> MoistureOrDefault(parseFloat(Part(rows[i + 1], 1))),
              isAnomaly |-> FALSE]
        ELSE [timestamp |-> i,
              moisture |-> MoistureOrDefault(parseFloat(Part(rows[i + 1], 0))),
              isAnomaly |-> FALSE]
  IN  SelectSeq([k \in 1..Len(rows) |-> sample(k - 1)],
                LAMBDA p : ~p.moisture.nan)

\* ---------------------------------------------------- the import alone
\* SpecCsv: parseCSV applied to files of at most MaxRows data rows under the
\* headers below; one row of the file is any row of one or two fields, the
\* moisture field any string of at most MaxField characters of FieldChars,
\* and the other rows read "7,7".
FieldChars == {"0", "7", ".", "-", "x"}
FieldInputs == SeqsUpTo(FieldChars, MaxField)
TimestampFields == {<<>>, <<"0">>, <<"7">>, <<"x">>}
RowInputs == {<<f>> : f \in FieldInputs}
               \cup {<<t, f>> : t \in TimestampFields, f \in FieldInputs}
HeaderInputs ==
  {<<"t", ",", "m", "o", "i", "s", "t", "u", "r", "e">>,
   <<"M", "o", "i", "s", "t", "u", "r", "e">>,
   <<"v">>,
   <<>>}
FileRows ==
  {<<>>} \cup {[k \in 1..n |-> IF k = p THEN r ELSE <<<<"7">>, <<"7">>>>] :
                 n \in 1..MaxRows, p \in 1..MaxRows, r \in RowInputs}

InitCsv ==
  /\ DashInit /\ ModuleInit /\ ApiIdle
  /\ args \in {Some([header |-> h, rows |-> r]) :
                 h \in HeaderInputs, r \in FileRows}
  /\ result = None
  /\ locals = None

ParseCSV ==
  /\ result = None
  /\ result' = Some(parseCSV(args[1].header, args[1].rows))
  /\ UNCHANGED <<args, locals, dashVars, moduleVars, apiVars>>

NextCsv == ParseCSV

SpecCsv == InitCsv /\ [][NextCsv]_vars

\* the moisture field of data row i: column 2 under a header that names
\* moisture, else column 1; an absent column is no number
MoistureField(i) ==
  LET row == args[1].rows[i]
      column == IF hasMoisture(args[1].header) THEN 2 ELSE 1
  IN  IF column <= Len(row) THEN parseFloat(row[column]) ELSE NaN

\* C21: parseCSV never aborts: every data row yields a sample with isAnomaly
\* = false whose moisture is the row's moisture value when that field parses
\* to a number and 50 when it does not, and no row with a number for its
\* moisture is dropped; without a header naming moisture the timestamps are
\* the row indices, with one the first column is the timestamp when it parses
\* to a number other than 0.
C21_ParseCsvDefaults ==
  result # None =>
    LET rows == args[1].rows
        out == result[1]
    IN  /\ Len(out) = Len(rows)
        /\ \A i \in DOMAIN out :
             /\ ~out[i].isAnomaly
             /\ out[i].moisture = IF MoistureField(i).nan THEN Number(50000)
                                  ELSE MoistureField(i)
             /\ ~hasMoisture(args[1].header) => out[i].timestamp = i - 1
             /\ (hasMoisture(args[1].header) /\ parseInt(rows[i][1]) # None
                   /\ parseInt(rows[i][1]) # Some(0))
                  => out[i].timestamp = parseInt(rows[i][1])[1]

\* ------------------------------------ the dashboard's claims, continued

\* C22: a CSV import that yields fewer than WINDOW_SIZE + 1 = 11 samples
\* fails with the error toast and changes nothing of the workflow state: the
\* loaded series, the normalized windows, the ground truth, isTrained,
\* detections, metrics and insights are as before; so every series that is
\* loaded has at least 11 samples.
C22_ShortImportChangesNothing ==
  [][/\ (toast' = ToastCsvError /\ toast # ToastCsvError) =>
          UNCHANGED <<soilData, normalizedRef, groundTruthRef, isTrained,
                      detections, metrics, insights>>
     /\ soilData' # soilData => soilData'.len >= 11]_vars

\* a short import failed while the results of a detection run were shown
C22_Witness ==
  /\ toast = ToastCsvError
  /\ isTrained
  /\ detections # None
  /\ metrics # None
  /\ insights # None

\* C23: for the fixed architecture getModelInfo reports 186 parameters and a
\* quantized size smaller than the float32 size: quantizedSizeKB <
\* originalSizeKB and reductionPercent > 0, with originalSizeKB =
\* params * 4 / 1024 and quantizedSizeKB = params / 1024 + 2 (sizes in
\* hundredths of a KB).
C23_QuantizedSmaller ==
  (modelInfo # None /\ modelInfo[1].parameterCount > 0) =>
    LET info == modelInfo[1]
    IN  /\ info.parameterCount = 186
        /\ info.originalSizeKB = RoundDiv(400 * info.parameterCount, 1024)
        /\ info.quantizedSizeKB
             = RoundDiv(100 * info.parameterCount, 1024) + 200
        /\ info.quantizedSizeKB < info.originalSizeKB
        /\ info.reductionPercent > 0

\* C24: the TinyML flags form a chain in every reachable state: isQuantized
\* implies isTFLiteConverted, and isTFLiteConverted implies isTrained.
C24_FlagChain ==
  /\ isQuantized => isTFLiteConverted
  /\ isTFLiteConverted => isTrained

\* C25: detection results exist only for a trained, idle model on the loaded
\* data: whenever detections or metrics are set, isTrained is true,
\* isTraining is false, and both were computed from the series now loaded
\* (its windows, its ground truth); and every step that loads a series or
\* starts a training clears detections, metrics and insights.
C25_ResultsOnlyWhenTrained ==
  /\ [](/\ (detections # None \/ metrics # None) => isTrained /\ ~isTraining
        /\ detections # None => detections[1].windows = soilData.gen
        /\ metrics # None => metrics[1].truth = soilData.gen
        /\ insights # None => insights[1].data = soilData.gen)
  /\ [][(\/ soilData' # soilData
         \/ ~isTraining /\ isTraining'
         \/ toast' # toast /\ toast' = ToastInsufficient)
          => detections' = None /\ metrics' = None /\ insights' = None]_vars

\* results are shown for the second series loaded, an imported one
C25_Witness ==
  /\ detections # None
  /\ metrics # None
  /\ soilData.gen = 2
  /\ soilData.anom = {}

\* reconstruction errors the model may return for a window (mean squared
\* differences, any non-negative number), in thousandths: below both slider
\* positions of ThresholdChoices, between them, above both
ReconstructionErrors == {LowError, 100, HighError}

\* C26: the stored detections agree with the threshold shown: in every
\* reachable state, for every error a stored detection may carry, the flag
\* handleDetect stored (error > threshold of that run) equals
\* error > the current threshold.
C26_DetectionsMatchThreshold ==
  detections # None =>
    \A e \in ReconstructionErrors :
      IsAnomalous(e, Finite(detections[1].threshold))
        = IsAnomalous(e, Finite(threshold))

\* ------------------------------------------------ training always ends
\* The training workflow with a fit that settles: the handlers that write
\* isTraining or isTrained or are guarded by them (loading a series, Train
\* Autoencoder and the steps of its fit, Run Detection); model.fit keeps
\* ending epochs and then resolves or rejects, so the steps of a started run
\* are not postponed forever.  The threshold slider and the TinyML buttons,
\* which write neither flag nor anything these handlers read before writing,
\* are left to Spec.
NextTraining ==
  \/ handleGenerateData
  \/ handleCSVUpload
  \/ handleTrain
  \/ TrainEpoch
  \/ TrainComplete
  \/ TrainFail
  \/ handleDetect

SpecTraining ==
  /\ Init
  /\ [][NextTraining]_vars
  /\ WF_vars(TrainEpoch \/ TrainComplete \/ TrainFail)

\* C27: every started training run ends: isTraining leads to ~isTraining,
\* whether the fit resolves or rejects; at the step that ends a run isTrained
\* becomes true only when the run succeeded (the 'Model Trained' toast) and is
\* false otherwise; and while isTraining neither Train Autoencoder nor Run
\* Detection is enabled.
C27_TrainingEnds ==
  /\ isTraining ~> ~isTraining
  /\ [][(isTraining /\ ~isTraining') =>
          /\ isTrained' <=> toast' = ToastTrained
          /\ isTrained' <=> isModelTrained']_vars
  /\ [](isTraining => ~TrainButtonEnabled /\ ~DetectButtonEnabled)

\* a run that was started has ended in the catch: the failure toast is shown,
\* the spinner is off and the model is not trained
C27_Witness ==
  /\ toast = ToastFitFailed
  /\ ~isTraining
  /\ ~isTrained
  /\ runs = <<>>

\* ------------------------------------- the generator for any numPoints
\* SpecGenerateAny: one call of generateSoilData for a numPoints on either
\* side of the slider's minimum, under a fair random source: while a draw can
\* still add a new index to anomalySet, one eventually does.
NumPointsAny == {0, 13, 40, 41, 42, 43}

InitGenerateAny ==
  /\ DashInit /\ ModuleInit /\ ApiIdle
  /\ args \in {Some([numPoints |-> n, anomalyIntensity |-> a]) :
                 n \in NumPointsAny, a \in IntensityInputs}
  /\ locals = Some([anomalySet |-> {},
                    data |-> [length |-> 0, flagged |-> {}, last |-> None]])
  /\ result = None

SpecGenerateAny ==
  InitGenerateAny /\ [][NextGenerate]_vars /\ WF_vars(NextGenerate)

\* C28: generateSoilData terminates for every numPoints >= 0: the while loop
\* has at least floor(0.08 * numPoints) distinct candidates, so whenever it is
\* still running (anomalySet.size < anomalyCount) some draw of
\* Math.floor(Math.random() * (numPoints - 40)) + 20 adds a new index.
C28_EnoughCandidates ==
  (result = None /\ Cardinality(locals[1].anomalySet)
                      < AnomalyCount(args[1].numPoints))
    => \E r \in Draws :
         AnomalyPosition(args[1].numPoints, r) \notin locals[1].anomalySet

\* --------------------------------- the metrics of a framed series
\* SpecAligned: computeMetrics applied as handleDetect applies it, to one
\* detection per window of a series of N samples (N - WINDOW_SIZE + 1 windows
\* of WINDOW_SIZE) and the series' own labels, one per sample.  Short series
\* take every labelling and every pattern of flags; series of NumPointsMin
\* samples take the labels generateSoilData can give and four flag patterns.
SampleCounts == (WINDOW_SIZE - 1)..MaxSamples

\* groundTruthRef.current = data.map((d) => d.isAnomaly)
GroundTruthOf(numPoints, anomalySet) ==
  [i \in 1..numPoints |-> (i - 1) \in anomalySet]

\* draws of the generator as <<start, stride>>; the second one gives the
\* indices 20, 79, 78, ..., 73, both ends of the range it draws from
GeneratorDraws == RandomDraws \cup {<<0, 59>>}

\* errors below (1) or above (2) the threshold 1, one per window: none above,
\* all above, above exactly on the windows centred on an anomaly, and above
\* on every other window
FlagPatterns(truth) ==
  LET n == NumWindows(Len(truth), WINDOW_SIZE)
      c(k) == (k - 1) + WINDOW_SIZE \div 2
  IN  {[k \in 1..n |-> 1], [k \in 1..n |-> 2],
       [k \in 1..n |-> IF truth[c(k) + 1] THEN 2 ELSE 1],
       [k \in 1..n |-> 1 + (k % 2)]}

InitAligned ==
  /\ DashInit /\ ModuleInit /\ ApiIdle
  /\ args \in
       {Some([detections |-> detectAnomalies(e, Finite(1), WINDOW_SIZE),
              groundTruth |-> g]) :
          <<g, e>> \in
            UNION {[1..n -> BOOLEAN]
                     \X [1..NumWindows(n, WINDOW_SIZE) -> {1, 2}] :
                   n \in SampleCounts}
            \cup UNION {{<<GroundTruthOf(NumPointsMin,
                                        AnomalySet(NumPointsMin, d)), f>> :
                           f \in FlagPatterns(GroundTruthOf(NumPointsMin,
                                   AnomalySet(NumPointsMin, d)))} :
                          d \in GeneratorDraws}}
  /\ result = None
  /\ locals = None

SpecAligned == InitAligned /\ [][NextMetrics]_vars

\* the labels of a generated series: at least NumPointsMin samples, anomalies
\* only in [20, N - 20)
IsGenerated(groundTruth) ==
  /\ Len(groundTruth) >= NumPointsMin
  /\ \A i \in DOMAIN groundTruth :
       groundTruth[i] =>
         i - 1 \in EdgeMargin..(Len(groundTruth) - EdgeMargin - 1)

\* C29: with one label per sample and one detection per window of the same
\* series, the clamp never engages and no ground-truth index is looked up by
\* two detections, so TP + FN <= totalAnomalies; for a generated series every
\* anomaly is the centre of exactly one window and TP + FN = totalAnomalies.
C29_AlignedCounts ==
  result # None =>
    LET g == args[1].groundTruth
        dets == args[1].detections
        m == result[1]
    IN  /\ \A k \in DOMAIN dets :
             /\ dets[k].timestampCenter <= Len(g) - 1
             /\ GtIndex(dets[k], g) = dets[k].timestampCenter
        /\ \A j, k \in DOMAIN dets :
             GtIndex(dets[j], g) = GtIndex(dets[k], g) => j = k
        /\ m.truePositives + m.falseNegatives <= m.totalAnomalies
        /\ IsGenerated(g) =>
             /\ \A i \in DOMAIN g :
                  g[i] => Cardinality({k \in DOMAIN dets :
                            dets[k].timestampCenter = i - 1}) = 1
             /\ m.truePositives + m.falseNegatives = m.totalAnomalies

\* a generated series of NumPointsMin samples with an anomaly at each end of
\* the range, some anomalies detected and some missed
C29_Witness ==
  /\ result # None
  /\ IsGenerated(args[1].groundTruth)
  /\ args[1].groundTruth[EdgeMargin + 1]
  /\ args[1].groundTruth[NumPointsMin - EdgeMargin]
  /\ result[1].truePositives > 0
  /\ result[1].falseNegatives > 0
  /\ result[1].totalAnomalies = AnomalyCount(NumPointsMin)

\* C30: the cut to 8 never drops a critical insight: the rules emit at most
\* three critical insights, at most one each of 'high-rate' (rule 2),
\* 'low-moisture' (rule 5) and 'cluster' (rule 7); every critical insight
\* emitted is in the list generateInsights returns; every insight cut is a
\* warning, an info or a success.
C30_CriticalsSurvive ==
  result # None =>
    LET emitted == locals[1]
        ret == result[1]
        critical == {p \in DOMAIN emitted : emitted[p].type = "critical"}
        returned == {p \in DOMAIN emitted :
                       \E j \in DOMAIN ret : ret[j] = emitted[p]}
    IN  /\ Cardinality(critical) <= 3
        /\ \A p \in critical :
             emitted[p].id.name \in {"high-rate", "low-moisture", "cluster"}
        /\ \A p, q \in critical :
             emitted[p].id.name = emitted[q].id.name => p = q
        /\ critical \subseteq returned
        /\ \A p \in DOMAIN emitted \ returned :
             emitted[p].type \in {"warning", "info", "success"}

\* all three critical insights are emitted, after more than 8 warnings, and
\* the cut drops some insight
C30_Witness ==
  /\ result # None
  /\ Len(EmittedNamed("high-rate")) = 1
  /\ Len(EmittedNamed("low-moisture")) = 1
  /\ Len(EmittedNamed("cluster")) = 1
  /\ Len(EmittedNamed("spike")) > MaxInsights
  /\ Len(locals[1]) > Len(result[1])
  /\ locals[1][Len(locals[1])].type = "critical"

====
